---- MODULE Spec2Model ----
(***************************************************************************)
(* Model of zato.server.apispec: ServiceInfo (declared invokes, SimpleIO   *)
(* parameter classification) and Generator (parse / get_info) building the *)
(* invokes / invoked_by call graph of a service registry.                  *)
(*                                                                         *)
(* Strings are sequences of character codes, so that startswith and the    *)
(* lexicographic order used by sorted() are computed, not assumed.         *)
(***************************************************************************)
EXTENDS Naturals, Sequences, FiniteSets, TLC

VARIABLES
    registry,       \* Generator.service_store_services: impl_name -> details
    filter,         \* Generator.filter
    services,       \* Generator.services: name -> ServiceInfo
    invokes,        \* Generator.invokes: name -> list of names
    invoked_by,     \* Generator.invoked_by: name -> list of names
    ignore_prefix,  \* argument of the last get_info call
    out,            \* value returned by the last get_info call
    raised,         \* TRUE iff the last get_info call ended in an exception
    calls,          \* number of get_info calls made on this Generator
    sio,            \* service_class.SimpleIO handed to ServiceInfo._add_simple_io
    simple_io,      \* ServiceInfo.simple_io
    sio_done        \* TRUE once _add_simple_io has run

vars == <<registry, filter, services, invokes, invoked_by, ignore_prefix, out,
          raised, calls, sio, simple_io, sio_done>>

graphVars == <<registry, filter, services, invokes, invoked_by, ignore_prefix,
               out, raised, calls>>

sioVars == <<sio, simple_io, sio_done>>

-----------------------------------------------------------------------------
(* Bounds *)

MaxInvokes == 2     \* most targets in one declared invokes list
MaxCalls == 2       \* most get_info calls on one Generator
MaxParams == 2      \* most parameters in one SimpleIO parameter list

-----------------------------------------------------------------------------
(* Strings *)

\* 'ab' and 'b': the longer name sorts first
ServiceNames == {<<1, 2>>, <<2>>}

\* 'aa' and 'ba'
ImplNames == {<<1, 1>>, <<2, 1>>}

\* 'a' and 'z'
IgnorePrefixes == {<<1>>, <<3>>}

None == "None"

\* unicode.startswith
StartsWith(s, prefix) ==
    /\ Len(prefix) <= Len(s)
    /\ SubSeq(s, 1, Len(prefix)) = prefix

\* s < t on strings: code point by code point, a proper prefix sorts first
LexLess(s, t) ==
    \E i \in 1..Len(t) :
        /\ \A j \in 1..(i - 1) : j <= Len(s) /\ s[j] = t[j]
        /\ (i > Len(s) \/ s[i] < t[i])

LexLeq(s, t) == s = t \/ LexLess(s, t)

\* all sequences over S of length 0..n
SeqsUpTo(S, n) == UNION {[1..k -> S] : k \in 0..n}

\* all orders in which a dict with key set S can yield its keys
Orders(S) ==
    {o \in [1..Cardinality(S) -> S] : \A i, j \in DOMAIN o : o[i] = o[j] => i = j}

RECURSIVE Insert(_, _)
Insert(x, sorted) ==
    IF sorted = <<>> THEN <<x>>
    ELSE IF LexLeq(x, Head(sorted)) THEN <<x>> \o sorted
    ELSE <<Head(sorted)>> \o Insert(x, Tail(sorted))

\* A get_info that forgets sorted(): the list as it comes
Unsorted(list) == list

RECURSIVE Sorted(_)
\* sorted(list of strings)
Sorted(list) ==
    IF list = <<>> THEN <<>>
    ELSE Insert(Head(list), Sorted(Tail(list)))

\* sorted(dict): the keys in ascending order, whatever order the dict yields them in
SortedKeys(S) == Sorted(CHOOSE o \in Orders(S) : TRUE)

-----------------------------------------------------------------------------
(* Registry contents *)

\* The invokes attribute of a service class: absent/None, one string, or a list.
\* A string declaration keeps the string as the only item.
DeclaredInvokes ==
    {[kind |-> "None", items |-> <<>>]}
    \cup {[kind |-> "basestring", items |-> <<n>>] : n \in ServiceNames}
    \cup {[kind |-> "list", items |-> l] : l \in SeqsUpTo(ServiceNames, MaxInvokes)}

\* A service class object; class_id tells the classes of different entries apart
ServiceClasses(impl_name) ==
    {[class_id |-> impl_name, invokes |-> d] : d \in DeclaredInvokes}

\* The details of one registry entry; a malformed entry lacks a key
Details(impl_name) ==
    {[name |-> n, service_class |-> c] :
        n \in ServiceNames, c \in ServiceClasses(impl_name)}
    \cup {[name |-> n] : n \in ServiceNames}
    \cup {[service_class |-> [class_id |-> impl_name,
                              invokes |-> [kind |-> "None", items |-> <<>>]]]}

EmptyDict == [k \in {} |-> <<>>]

Put(dict, key, value) ==
    [k \in DOMAIN dict \cup {key} |-> IF k = key THEN value ELSE dict[k]]

Get(dict, key, default) == IF key \in DOMAIN dict THEN dict[key] ELSE default

-----------------------------------------------------------------------------
(* ServiceInfo *)

\* ServiceInfo._add_services_from_invokes: the value of self.invokes afterwards
AddServicesFromInvokes(service_class) ==
    LET decl == service_class.invokes IN
    IF decl.kind = "None" \/ decl.items = <<>> THEN <<>>
    ELSE IF decl.kind = "basestring" THEN <<decl.items[1]>>
    ELSE IF decl.kind = "list" THEN decl.items
    ELSE <<>>

\* ServiceInfo.__init__ followed by parse(), as far as the call graph goes
ServiceInfo(name, service_class) ==
    [name |-> name,
     service_class |-> service_class.class_id,
     invokes |-> AddServicesFromInvokes(service_class),
     invoked_by |-> <<>>]

-----------------------------------------------------------------------------
(* Generator.parse *)

RECURSIVE ParseServicesBreak(_, _, _, _)
\* A first loop that stops at the first ignored entry instead of passing over it
ParseServicesBreak(reg, order, prefix, svcs) ==
    IF order = <<>> THEN [services |-> svcs, raised |-> FALSE]
    ELSE
        LET impl_name == Head(order)
            details == reg[impl_name]
        IN  IF StartsWith(impl_name, prefix)
            THEN [services |-> svcs, raised |-> FALSE]
            ELSE IF "name" \notin DOMAIN details \/ "service_class" \notin DOMAIN details
            THEN [services |-> svcs, raised |-> TRUE]
            ELSE
                LET info == ServiceInfo(details.name, details.service_class)
                IN  ParseServicesBreak(reg, Tail(order), prefix, Put(svcs, info.name, info))

RECURSIVE ParseServicesSkipMalformed(_, _, _, _)
\* A first loop that passes over a malformed entry instead of raising
ParseServicesSkipMalformed(reg, order, prefix, svcs) ==
    IF order = <<>> THEN [services |-> svcs, raised |-> FALSE]
    ELSE
        LET impl_name == Head(order)
            details == reg[impl_name]
        IN  IF StartsWith(impl_name, prefix)
               \/ "name" \notin DOMAIN details \/ "service_class" \notin DOMAIN details
            THEN ParseServicesSkipMalformed(reg, Tail(order), prefix, svcs)
            ELSE
                LET info == ServiceInfo(details.name, details.service_class)
                IN  ParseServicesSkipMalformed(reg, Tail(order), prefix,
                                               Put(svcs, info.name, info))

RECURSIVE ParseServices(_, _, _, _)
\* First loop of parse: reg yields its entries in the given order; the result
\* is self.services afterwards and whether details[...] raised KeyError.
ParseServices(reg, order, prefix, svcs) ==
    IF order = <<>> THEN [services |-> svcs, raised |-> FALSE]
    ELSE
        LET impl_name == Head(order)
            details == reg[impl_name]
        IN  IF StartsWith(impl_name, prefix)
            THEN ParseServices(reg, Tail(order), prefix, svcs)
            ELSE IF "name" \notin DOMAIN details \/ "service_class" \notin DOMAIN details
            THEN [services |-> svcs, raised |-> TRUE]
            ELSE
                LET info == ServiceInfo(details.name, details.service_class)
                IN  ParseServices(reg, Tail(order), prefix, Put(svcs, info.name, info))

\* Second loop of parse: self.invokes[name] = info.invokes
ParseInvokes(svcs, inv) ==
    [name \in DOMAIN inv \cup DOMAIN svcs |->
        IF name \in DOMAIN svcs THEN svcs[name].invokes ELSE inv[name]]

RECURSIVE AppendTarget(_, _, _)
\* An inner loop that appends the target where the source belongs
AppendTarget(targets, source, ib) ==
    IF targets = <<>> THEN ib
    ELSE
        LET target == Head(targets)
        IN  AppendTarget(Tail(targets), source,
                         Put(ib, target, Append(Get(ib, target, <<>>), target)))

RECURSIVE AppendSource(_, _, _)
\* Inner loop: self.invoked_by.setdefault(target, []).append(source)
AppendSource(targets, source, ib) ==
    IF targets = <<>> THEN ib
    ELSE
        LET target == Head(targets)
        IN  AppendSource(Tail(targets), source,
                         Put(ib, target, Append(Get(ib, target, <<>>), source)))

RECURSIVE ParseInvokedBy(_, _, _)
\* Third loop of parse: self.invokes yields its items in the given order
ParseInvokedBy(order, inv, ib) ==
    IF order = <<>> THEN ib
    ELSE ParseInvokedBy(Tail(order), inv, AppendSource(inv[Head(order)], Head(order), ib))

\* A parse without its fourth loop
ParseAssignMissing(svcs, ib) == svcs

\* Fourth loop of parse: info.invoked_by = self.invoked_by.get(name, [])
ParseAssign(svcs, ib) ==
    [name \in DOMAIN svcs |-> [svcs[name] EXCEPT !.invoked_by = Get(ib, name, <<>>)]]

-----------------------------------------------------------------------------
(* Generator.get_info *)

RECURSIVE Records(_, _, _)
\* The loop of get_info over sorted(self.services)
Records(names, svcs, flt) ==
    IF names = <<>> THEN <<>>
    ELSE
        LET name == Head(names)
            info == svcs[name]
        IN  IF flt # <<>> /\ name # flt
            THEN Records(Tail(names), svcs, flt)
            ELSE <<[name |-> info.name,
                    invokes |-> Sorted(info.invokes),
                    invoked_by |-> Sorted(info.invoked_by)]>>
                 \o Records(Tail(names), svcs, flt)

\* The state of a Generator and the outcome of get_info(prefix) on it, given the
\* orders in which the registry and self.invokes yield their items
GetInfoResult(reg, flt, svcs, inv, ib, prefix, regOrder, invOrder) ==
    LET first == ParseServices(reg, regOrder, prefix, svcs)
        inv2 == ParseInvokes(first.services, inv)
        ib2 == ParseInvokedBy(invOrder, inv2, ib)
        svcs2 == ParseAssign(first.services, ib2)
    IN  IF first.raised
        THEN [services |-> first.services, invokes |-> inv, invoked_by |-> ib,
              raised |-> TRUE, out |-> <<>>]
        ELSE [services |-> svcs2, invokes |-> inv2, invoked_by |-> ib2,
              raised |-> FALSE, out |-> Records(SortedKeys(DOMAIN svcs2), svcs2, flt)]

\* The key set of self.invokes in the third loop
InvokesKeys(reg, svcs, inv, prefix, regOrder) ==
    LET first == ParseServices(reg, regOrder, prefix, svcs)
    IN  IF first.raised THEN {} ELSE DOMAIN ParseInvokes(first.services, inv)

-----------------------------------------------------------------------------
(* SimpleIO declarations and the type map (zato.common.SIMPLE_IO and      *)
(* zato.server.service.reqresp.sio)                                        *)

_sio_attrs == <<"input_required", "output_required", "input_optional", "output_optional">>

\* unicode.endswith
EndsWith(s, suffix) ==
    /\ Len(suffix) <= Len(s)
    /\ SubSeq(s, Len(s) - Len(suffix) + 1, Len(s)) = suffix

\* SIMPLE_IO.BOOL_PARAMETERS.SUFFIXES
BOOL_SUFFIXES == {<<1>>}

\* SIMPLE_IO.INT_PARAMETERS.VALUES
INT_VALUES == {<<2, 1>>}

\* SIMPLE_IO.INT_PARAMETERS.SUFFIXES
INT_SUFFIXES == {<<2>>}

\* is_bool: the name follows the boolean naming convention
is_bool(param, param_name, suffixes) ==
    \E suffix \in suffixes : EndsWith(param_name, suffix)

\* is_int: the name is an integer-valued name or follows the integer convention
is_int(param_name, values, suffixes) ==
    \/ param_name \in values
    \/ \E suffix \in suffixes : EndsWith(param_name, suffix)

\* One dialect per entry: its name, the (type, subtype) of each category and
\* the map from the class of a parameter to its (type, subtype)
SIO_TYPE_MAP ==
    << [name |-> "zato",
        DEFAULT |-> <<"string", "string">>,
        BOOLEAN |-> <<"boolean", "boolean">>,
        INTEGER |-> <<"integer", "integer">>,
        map |-> [c \in {"Boolean"} |-> <<"boolean", "boolean">>]],
       [name |-> "openapi",
        DEFAULT |-> <<"string", "">>,
        BOOLEAN |-> <<"boolean", "">>,
        INTEGER |-> <<"integer", "int32">>,
        map |-> [c \in {"Boolean"} |-> <<"boolean", "">>]] >>

\* Names of declared parameters: one that follows no convention, one that follows
\* the boolean one, one that follows the integer one, and an integer-valued name
\* that follows the boolean convention as well
ParamNames == {<<3>>, <<3, 1>>, <<3, 2>>, <<2, 1>>}

\* A declared parameter: a plain string or an object of an SIO class with a name
ParamClasses == {"unicode", "AsIs", "Boolean", "Opaque"}

Params == [name : ParamNames, class : ParamClasses]

\* service_class.SimpleIO: not declared, or a class some attributes of which
\* are parameter lists
SimpleIODecls ==
    {[declared |-> FALSE, lists |-> EmptyDict]}
    \cup {[declared |-> TRUE, lists |-> EmptyDict]}
    \cup {[declared |-> TRUE, lists |-> [a \in {attr} |-> l]] :
            attr \in {_sio_attrs[i] : i \in DOMAIN _sio_attrs},
            l \in SeqsUpTo(Params, MaxParams) \ {<<>>}}

\* A loop body that tests the naming conventions before AsIs
TypeInfoNamesFirst(api_spec_info, param) ==
    LET param_name == param.name IN
    IF is_bool(param, param_name, BOOL_SUFFIXES) THEN api_spec_info.BOOLEAN
    ELSE IF is_int(param_name, INT_VALUES, INT_SUFFIXES) THEN api_spec_info.INTEGER
    ELSE IF param.class = "AsIs" THEN api_spec_info.DEFAULT
    ELSE IF param.class \in DOMAIN api_spec_info.map THEN api_spec_info.map[param.class]
    ELSE api_spec_info.DEFAULT

\* The branches of the loop body of _add_simple_io: type_info for one parameter
TypeInfo(api_spec_info, param) ==
    LET param_name == param.name IN
    IF param.class = "AsIs" THEN api_spec_info.DEFAULT
    ELSE IF is_bool(param, param_name, BOOL_SUFFIXES) THEN api_spec_info.BOOLEAN
    ELSE IF is_int(param_name, INT_VALUES, INT_SUFFIXES) THEN api_spec_info.INTEGER
    ELSE IF param.class \in DOMAIN api_spec_info.map THEN api_spec_info.map[param.class]
    ELSE api_spec_info.DEFAULT

\* The loop over one parameter list: _param_list
ParamList(api_spec_info, param_list) ==
    [i \in DOMAIN param_list |->
        LET type_info == TypeInfo(api_spec_info, param_list[i])
        IN  [name |-> param_list[i].name, type |-> type_info[1], subtype |-> type_info[2]]]

\* SimpleIO(_api_spec_info).to_bunch() for one dialect
SimpleIOBunch(api_spec_info, decl) ==
    [input_required |-> ParamList(api_spec_info, Get(decl.lists, "input_required", <<>>)),
     output_required |-> ParamList(api_spec_info, Get(decl.lists, "output_required", <<>>)),
     input_optional |-> ParamList(api_spec_info, Get(decl.lists, "input_optional", <<>>)),
     output_optional |-> ParamList(api_spec_info, Get(decl.lists, "output_optional", <<>>)),
     request_elem |-> None,
     response_elem |-> None,
     spec_name |-> api_spec_info.name]

\* ServiceInfo._add_simple_io: the value of self.simple_io afterwards
AddSimpleIOResult(decl) ==
    IF ~decl.declared THEN EmptyDict
    ELSE [spec_name \in {SIO_TYPE_MAP[i].name : i \in DOMAIN SIO_TYPE_MAP} |->
            LET api_spec_info ==
                    CHOOSE d \in {SIO_TYPE_MAP[i] : i \in DOMAIN SIO_TYPE_MAP} :
                        d.name = spec_name
            IN  SimpleIOBunch(api_spec_info, decl)]

-----------------------------------------------------------------------------
(* The Generator as a state machine *)

\* Names usable as the filter; the empty string stands for a filter that is not
\* set (None and '' are both false in "if self.filter and ...")
Filters == {<<>>} \cup ServiceNames

Registries ==
    UNION {
        {reg \in [S -> UNION {Details(i) : i \in S}] :
            \A i \in S : reg[i] \in Details(i)} :
        S \in SUBSET ImplNames}

NoSimpleIO == [declared |-> FALSE, lists |-> EmptyDict]

\* Generator.__init__ on some registry
Init ==
    /\ registry \in Registries
    /\ filter \in Filters
    /\ services = EmptyDict
    /\ invokes = EmptyDict
    /\ invoked_by = EmptyDict
    /\ ignore_prefix = <<>>
    /\ out = <<>>
    /\ raised = FALSE
    /\ calls = 0
    /\ sio = NoSimpleIO
    /\ simple_io = EmptyDict
    /\ sio_done = FALSE

\* Generator.get_info(prefix)
GetInfo(prefix, regOrder, invOrder) ==
    /\ calls < MaxCalls
    /\ LET r == GetInfoResult(registry, filter, services, invokes, invoked_by,
                              prefix, regOrder, invOrder)
       IN  /\ services' = r.services
           /\ invokes' = r.invokes
           /\ invoked_by' = r.invoked_by
           /\ raised' = r.raised
           /\ out' = r.out
    /\ ignore_prefix' = prefix
    /\ calls' = calls + 1
    /\ UNCHANGED <<registry, filter>>
    /\ UNCHANGED sioVars

Next ==
    \E prefix \in IgnorePrefixes, regOrder \in Orders(DOMAIN registry) :
        \E invOrder \in Orders(InvokesKeys(registry, services, invokes, prefix, regOrder)) :
            GetInfo(prefix, regOrder, invOrder)

Spec == Init /\ [][Next]_vars

-----------------------------------------------------------------------------
(* ServiceInfo._add_simple_io as a state machine *)

\* A ServiceInfo about to parse a service class with some SimpleIO declaration
InitSIO ==
    /\ registry = EmptyDict
    /\ filter = <<>>
    /\ services = EmptyDict
    /\ invokes = EmptyDict
    /\ invoked_by = EmptyDict
    /\ ignore_prefix = <<>>
    /\ out = <<>>
    /\ raised = FALSE
    /\ calls = 0
    /\ sio \in SimpleIODecls
    /\ simple_io = EmptyDict
    /\ sio_done = FALSE

\* ServiceInfo._add_simple_io()
AddSimpleIO ==
    /\ ~sio_done
    /\ simple_io' = AddSimpleIOResult(sio)
    /\ sio_done' = TRUE
    /\ UNCHANGED sio
    /\ UNCHANGED graphVars

NextSIO == AddSimpleIO

SpecSIO == InitSIO /\ [][NextSIO]_vars

-----------------------------------------------------------------------------
(* Vocabulary of the properties *)

Elems(seq) == {seq[i] : i \in DOMAIN seq}

HasDuplicates(seq) == \E i, j \in DOMAIN seq : i # j /\ seq[i] = seq[j]

IsAscending(seq) == \A i \in 1..(Len(seq) - 1) : LexLeq(seq[i], seq[i + 1])

IsStrictlyAscending(seq) == \A i \in 1..(Len(seq) - 1) : LexLess(seq[i], seq[i + 1])

\* The registry entries the last get_info call had to read
Retained == {i \in DOMAIN registry : ~StartsWith(i, ignore_prefix)}

Malformed(i) == DOMAIN registry[i] # {"name", "service_class"}

\* The names declared by the retained entries
RetainedNames == {registry[i].name : i \in {r \in Retained : ~Malformed(r)}}

Returned == calls > 0 /\ ~raised

\* What get_info(prefix) gives on a newly created Generator
FreshGetInfo(reg, flt, prefix, regOrder) ==
    LET keys == InvokesKeys(reg, EmptyDict, EmptyDict, prefix, regOrder)
    IN  GetInfoResult(reg, flt, EmptyDict, EmptyDict, EmptyDict, prefix, regOrder,
                      CHOOSE o \in Orders(keys) : TRUE)

-----------------------------------------------------------------------------
(* Properties *)

\* C1 -- Graph closure: once get_info has returned, for all services A and B that
\* are keys of the graph, if B is in A.invokes then A is in B.invoked_by.
GraphClosure ==
    Returned =>
        \A A \in DOMAIN services, B \in DOMAIN services :
            B \in Elems(services[A].invokes) => A \in Elems(services[B].invoked_by)

\* Two different services of the graph, one invoking the other
GraphClosureWitness ==
    /\ Returned
    /\ \E A \in DOMAIN services, B \in DOMAIN services :
        /\ A # B
        /\ B \in Elems(services[A].invokes)
        /\ A \in Elems(services[B].invoked_by)

\* C2 -- Every get_info call returns exactly what get_info returns on a newly
\* created Generator for the same registry, filter and ignore_prefix (under some
\* iteration order of the registry): nothing is kept from earlier calls.
FreshGraphEachCall ==
    calls > 0 =>
        \E regOrder \in Orders(DOMAIN registry) :
            LET fresh == FreshGetInfo(registry, filter, ignore_prefix, regOrder)
            IN  fresh.raised = raised /\ fresh.out = out

\* C3 -- Ignore-prefix exclusion: no key of the graph and no returned record is
\* built from a registry entry whose implementation name starts with ignore_prefix.
IgnorePrefixExclusion ==
    Returned =>
        /\ \A name \in DOMAIN services :
            ~StartsWith(services[name].service_class, ignore_prefix)
        /\ \A i \in DOMAIN out :
            ~StartsWith(services[out[i].name].service_class, ignore_prefix)

\* C4 -- Sort stability: the returned records are in ascending order of name and
\* the invokes and invoked_by arrays of every record are in ascending order.
SortStability ==
    Returned =>
        /\ IsStrictlyAscending([i \in DOMAIN out |-> out[i].name])
        /\ \A i \in DOMAIN out :
            IsAscending(out[i].invokes) /\ IsAscending(out[i].invoked_by)

\* No filter, two records, and a record whose service declares its invokes, and
\* another whose invoked_by was accumulated, in descending order
SortStabilityWitness ==
    /\ Returned
    /\ filter = <<>>
    /\ Len(out) = 2
    /\ \E name \in DOMAIN services :
        Len(services[name].invokes) = 2 /\ ~IsAscending(services[name].invokes)
    /\ \E name \in DOMAIN services :
        Len(services[name].invoked_by) >= 2 /\ ~IsAscending(services[name].invoked_by)

\* C5 -- Filter exactness: with the filter set to X, get_info returns exactly the
\* record named X when a retained entry declares the name X, and nothing otherwise.
FilterExactness ==
    (Returned /\ filter # <<>>) =>
        IF filter \in RetainedNames
        THEN Len(out) = 1 /\ out[1].name = filter
        ELSE out = <<>>

\* C6 -- Classifier precedence: in every dialect every declared parameter gets
\* DEFAULT when it is AsIs, else BOOLEAN when its name follows the boolean
\* convention, else INTEGER when it follows the integer one, else the entry of the
\* type map for its class or DEFAULT; so each has a (type, subtype) of its dialect.
ClassifierPrecedence ==
    sio_done =>
        \A d \in DOMAIN SIO_TYPE_MAP, a \in DOMAIN _sio_attrs :
            LET api_spec_info == SIO_TYPE_MAP[d]
                declared == Get(sio.lists, _sio_attrs[a], <<>>)
            IN  sio.declared =>
                /\ api_spec_info.name \in DOMAIN simple_io
                /\ LET classified == simple_io[api_spec_info.name][_sio_attrs[a]]
                   IN  /\ Len(classified) = Len(declared)
                       /\ \A i \in DOMAIN declared :
                            LET param == declared[i]
                                got == <<classified[i].type, classified[i].subtype>>
                                bool == is_bool(param, param.name, BOOL_SUFFIXES)
                                int == is_int(param.name, INT_VALUES, INT_SUFFIXES)
                                mapped == param.class \in DOMAIN api_spec_info.map
                            IN  /\ classified[i].name = param.name
                                /\ param.class = "AsIs" => got = api_spec_info.DEFAULT
                                /\ (param.class # "AsIs" /\ bool) => got = api_spec_info.BOOLEAN
                                /\ (param.class # "AsIs" /\ ~bool /\ int)
                                        => got = api_spec_info.INTEGER
                                /\ (param.class # "AsIs" /\ ~bool /\ ~int /\ mapped)
                                        => got = api_spec_info.map[param.class]
                                /\ (param.class # "AsIs" /\ ~bool /\ ~int /\ ~mapped)
                                        => got = api_spec_info.DEFAULT
                                /\ got \in {api_spec_info.DEFAULT, api_spec_info.BOOLEAN,
                                            api_spec_info.INTEGER}
                                           \cup {api_spec_info.map[c] :
                                                    c \in DOMAIN api_spec_info.map}

\* An AsIs parameter whose name follows the boolean convention, and another whose
\* name is integer-valued, classified in every dialect
ClassifierPrecedenceWitness ==
    /\ sio_done
    /\ sio.declared
    /\ \E a \in DOMAIN sio.lists :
        /\ \E i \in DOMAIN sio.lists[a] :
            /\ sio.lists[a][i].class = "AsIs"
            /\ is_bool(sio.lists[a][i], sio.lists[a][i].name, BOOL_SUFFIXES)
        /\ \E i \in DOMAIN sio.lists[a] :
            /\ sio.lists[a][i].class # "AsIs"
            /\ is_int(sio.lists[a][i].name, INT_VALUES, INT_SUFFIXES)
        /\ \A d \in DOMAIN SIO_TYPE_MAP :
            Len(simple_io[SIO_TYPE_MAP[d].name][a]) = Len(sio.lists[a])

\* C7 -- Unique invokes: no service name occurs twice in the invokes array of a
\* returned record.
UniqueInvokes ==
    Returned => \A i \in DOMAIN out : ~HasDuplicates(out[i].invokes)

\* C8 -- Determinism with respect to the iteration order of the registry: the
\* first get_info on a Generator returns what it returns under every order in
\* which the registry can yield its entries.
OrderDeterminism ==
    calls = 1 =>
        \A regOrder \in Orders(DOMAIN registry) :
            LET fresh == FreshGetInfo(registry, filter, ignore_prefix, regOrder)
            IN  fresh.raised = raised /\ fresh.out = out

\* C8, amended -- the same, provided no two retained entries declare the same
\* service name.
OrderDeterminismDistinctNames ==
    (/\ calls = 1
     /\ \A i \in Retained, j \in Retained :
            (~Malformed(i) /\ ~Malformed(j) /\ registry[i].name = registry[j].name)
                => i = j) =>
        \A regOrder \in Orders(DOMAIN registry) :
            LET fresh == FreshGetInfo(registry, filter, ignore_prefix, regOrder)
            IN  fresh.raised = raised /\ fresh.out = out

\* Two retained entries with different names, one invoking the other, returned
\* as two records
OrderDeterminismWitness ==
    /\ calls = 1
    /\ ~raised
    /\ Cardinality(Retained) = 2
    /\ Cardinality(RetainedNames) = 2
    /\ Len(out) = 2
    /\ \E i \in DOMAIN out : out[i].invoked_by # <<>>

\* C9 -- Malformed registry entry: get_info raises exactly when a retained entry
\* lacks the name or the service class; then it returns no record; otherwise it
\* returns a record for every retained name the filter lets through.
MalformedHardFailure ==
    calls > 0 =>
        /\ raised <=> (\E i \in Retained : Malformed(i))
        /\ raised => out = <<>>
        /\ ~raised =>
            \A name \in RetainedNames :
                (filter = <<>> \/ filter = name) =>
                    \E i \in DOMAIN out : out[i].name = name

\* get_info raised on a malformed entry that the registry yielded after a
\* well-formed one
MalformedHardFailureWitness ==
    /\ calls = 1
    /\ raised
    /\ out = <<>>
    /\ services # EmptyDict
    /\ \E i \in Retained : Malformed(i)

\* C10 -- Soundness of invoked_by: after the first get_info on a Generator, every
\* name A in the invoked_by of a returned record B is a key of the graph, built
\* from a retained registry entry, with B in A.invokes.
InvokedBySound ==
    (calls = 1 /\ ~raised) =>
        \A i \in DOMAIN out :
            \A A \in Elems(out[i].invoked_by) :
                /\ A \in DOMAIN services
                /\ A \in RetainedNames
                /\ services[A].service_class \in Retained
                /\ out[i].name \in Elems(services[A].invokes)

\* A returned record B with a caller, while an ignored entry of the registry
\* declares another service that invokes B
InvokedBySoundWitness ==
    /\ calls = 1
    /\ ~raised
    /\ \E i \in DOMAIN out, e \in DOMAIN registry \ Retained :
        /\ ~Malformed(e)
        /\ registry[e].name # out[i].name
        /\ out[i].name \in Elems(AddServicesFromInvokes(registry[e].service_class))
        /\ out[i].invoked_by # <<>>
        /\ registry[e].name \notin Elems(out[i].invoked_by)

====
